---- MODULE Spec2Model ----
(***************************************************************************)
(* One run of the Climverse dashboard script (src/main.py): page header,   *)
(* shapefile load, the six cascading filters, the parcel-count message,    *)
(* the empty guard, the map, the tiles and the "View Selected Data" table. *)
(* The script is re-executed from its first line on every interaction, so  *)
(* a session is a sequence of runs over the same shapefile.                *)
(*                                                                         *)
(* Values are integers: strings of a categorical column are numbered in    *)
(* their lexicographic order, areas are counted in hundredths of a hectare.*)
(***************************************************************************)
EXTENDS Integers, Sequences, FiniteSets, TLC

\* ---- bounds of the model ----
MaxRows == 2

\* ---- distinguished values ----
\* the sentinel option "All"
All == 0
\* float('nan'), what pd.to_numeric(errors='coerce') makes of a bad value
NaN == 0 - 1
\* a raw Area_ha cell that does not parse as a number
NonNumeric == 0 - 2
\* the "**Total**" label of the table's appended row
TotalLabel == 0 - 3
ZoomNarrow == 14
ZoomWide == 10

FilterOrder == <<"GP_Name", "Parcel_Id", "Area_ha", "Year", "Block", "District">>
AttrCols == {FilterOrder[i] : i \in 1..Len(FilterOrder)}
MultiKeys == {"GP_Name", "Parcel_Id"}
DisplayCols == <<"GP_Name", "Block", "District", "Area_ha">>

Range(s) == {s[i] : i \in 1..Len(s)}

\* ---- Python / pandas primitives ----
\* float and numpy comparisons: every comparison with nan is False
PyLt(a, b) == a # NaN /\ b # NaN /\ a < b
PyEq(a, b) == a # NaN /\ b # NaN /\ a = b

\* Series.unique(): distinct values in order of first appearance (one nan)
RECURSIVE Unique(_)
Unique(s) ==
    IF s = <<>> THEN <<>>
    ELSE LET front == Unique(SubSeq(s, 1, Len(s) - 1))
             x == s[Len(s)]
         IN IF x \in Range(front) THEN front ELSE Append(front, x)

\* list.sort() of a short list (CPython listsort): count_run finds the
\* leading run, a descending run is reversed, the rest is inserted by
\* binary insertion.  Only "<" is used.
RECURSIVE RunEnd(_, _, _)
RunEnd(s, i, desc) ==
    IF i > Len(s) THEN i - 1
    ELSE IF PyLt(s[i], s[i - 1]) = desc THEN RunEnd(s, i + 1, desc) ELSE i - 1

Reverse(s) == [i \in 1..Len(s) |-> s[Len(s) + 1 - i]]

RECURSIVE BinPos(_, _, _, _)
BinPos(s, pivot, l, r) ==
    IF l >= r THEN l
    ELSE LET p == l + ((r - l) \div 2)
         IN IF PyLt(pivot, s[p]) THEN BinPos(s, pivot, l, p)
            ELSE BinPos(s, pivot, p + 1, r)

RECURSIVE BinarySort(_, _)
BinarySort(s, start) ==
    IF start > Len(s) THEN s
    ELSE LET pivot == s[start]
             l == BinPos(s, pivot, 1, start)
             moved == SubSeq(s, 1, l - 1) \o <<pivot>> \o SubSeq(s, l, start - 1)
                        \o SubSeq(s, start + 1, Len(s))
         IN BinarySort(moved, start + 1)

PySorted(s) ==
    IF Len(s) < 2 THEN s
    ELSE LET desc == PyLt(s[2], s[1])
             n == RunEnd(s, 3, desc)
             run == SubSeq(s, 1, n)
             head == IF desc THEN Reverse(run) ELSE run
         IN BinarySort(head \o SubSeq(s, n + 1, Len(s)), n + 1)

Column(df, c) == [i \in 1..Len(df) |-> df[i][c]]

\* Series.sum(): skipna, the sum of no values is 0
RECURSIVE SeriesSum(_)
SeriesSum(s) ==
    IF s = <<>> THEN 0
    ELSE (IF s[Len(s)] = NaN THEN 0 ELSE s[Len(s)]) + SeriesSum(SubSeq(s, 1, Len(s) - 1))

\* pd.to_numeric(errors='coerce') on one cell
ToNumeric(v) == IF v = NonNumeric THEN NaN ELSE v

\* ---- the shapefiles a session may be pointed at ----
GPNames == {1, 2}
Blocks == {1, 2}
Years == {1}
Districts == {1}
RawAreas == {1, 2, NonNumeric}

\* every column is optional: the files have all six, or lack one of them
ColumnSets == {AttrCols} \cup {AttrCols \ {c} : c \in AttrCols}

\* the attribute cells of the feature at position i (its Parcel_Id is its own)
FullRows(i) ==
    [GP_Name : GPNames, Parcel_Id : {i}, Area_ha : RawAreas, Year : Years,
     Block : Blocks, District : Districts]

\* a feature is its attribute cells plus its geometry (numbered by position)
Rows(cols, i) ==
    {[c \in cols \cup {"geometry"} |-> IF c = "geometry" THEN i ELSE full[c]] :
        full \in FullRows(i)}

RECURSIVE Features(_, _)
Features(cols, n) ==
    IF n = 0 THEN {<<>>}
    ELSE {Append(rs, r) : rs \in Features(cols, n - 1), r \in Rows(cols, n)}

\* gdf.crs: a CRS, or none, on which gdf.crs.to_epsg() raises.  to_crs (line
\* 36) changes coordinates only, and a geometry is held here as the number of
\* its feature, so a file in any other CRS loads as one in EPSG:4326 does
CRSs == {"EPSG:4326", "none"}

ShapefilesUpTo(maxRows) ==
    {[exists |-> FALSE, crs |-> "none", columns |-> {}, rows |-> <<>>]}
    \cup UNION {UNION {{[exists |-> TRUE, crs |-> k, columns |-> cols, rows |-> rs] :
                          k \in CRSs, rs \in Features(cols, n)} :
                      n \in 0..maxRows} : cols \in ColumnSets}

\* ---- the frames and the operations of the script on them ----
\* gpd.read_file and the Area_ha coercion (lines 34-38)
LoadedFrame(file) ==
    [i \in 1..Len(file.rows) |->
        [c \in DOMAIN file.rows[i] |->
            IF c = "Area_ha" THEN ToNumeric(file.rows[i][c]) ELSE file.rows[i][c]]]

\* a slip: a file without CRS information is taken as loadable
LoadRaisesIfMissing(file) == ~file.exists

LoadRaises(file) == ~file.exists \/ file.crs = "none"

\* ["All"] + sorted(df[k].unique())
Options(df, k) == <<All>> \o PySorted(Unique(Column(df, k)))

\* df[df[k].isin(s)]
IsIn(df, k, s) == SelectSeq(df, LAMBDA r : r[k] \in s)

\* df[df[k] == v]
EqMask(df, k, v) == SelectSeq(df, LAMBDA r : PyEq(r[k], v))

\* the conditions of lines 54, 62, 70, 77, 85, 92: the selection restricts
Restricts(k, choice) ==
    IF k \in MultiKeys THEN All \notin choice /\ choice # {} ELSE choice # All

\* a slip: the base frame is indexed instead of the current subset
MaskOfBase(base, df, k, choice) ==
    IF k \in MultiKeys THEN IsIn(base, k, choice) ELSE EqMask(base, k, choice)

\* the indexing of lines 55, 63, 71, 78, 86, 93, always of the current subset
Mask(base, df, k, choice) ==
    IF k \in MultiKeys THEN IsIn(df, k, choice) ELSE EqMask(df, k, choice)

\* one filter block's effect on the subset
Narrow(base, df, k, choice) ==
    IF Restricts(k, choice) THEN Mask(base, df, k, choice) ELSE df

\* the selections a widget can return for an option list
Choices(k, opts) == IF k \in MultiKeys THEN SUBSET Range(opts) ELSE Range(opts)

\* a slip: filtered_gdf aliases gdf and is narrowed in place
BaseAfterInPlace(base, derived) == derived

\* the frame gdf names once filtered_gdf (a copy, line 45) is rebound to a
\* narrowed frame: boolean indexing builds a new frame
BaseAfter(base, derived) == base

\* a slip: the guard compares the wrong way and never fires
IsEmptyNever(df) == Len(df) < 0

\* DataFrame.empty
IsEmpty(df) == Len(df) = 0

\* unary_union.centroid: stands for the centroid of the union of the geometries
Centroid(df) == {df[i]["geometry"] : i \in 1..Len(df)}

Zoom(df) == IF Len(df) > 0 THEN ZoomNarrow ELSE ZoomWide

\* cols = [c for c in [...] if c in filtered_gdf.columns]
TableCols(cols) == SelectSeq(DisplayCols, LAMBDA c : c \in cols)

\* a slip: the label is put under 'GP_Name' whether or not it is displayed
TotalRowUnderGPName(cols, total) ==
    [c \in Range(cols) |->
        IF c = "Area_ha" THEN total ELSE IF c = "GP_Name" THEN TotalLabel ELSE NaN]

\* the dict of the appended row: a later key overwrites an earlier equal one
TotalRow(cols, total) ==
    [c \in Range(cols) |->
        IF c = "Area_ha" THEN total ELSE IF c = cols[1] THEN TotalLabel ELSE NaN]

\* filtered_gdf[cols].copy() plus the appended row (lines 178-182)
Table(df, present) ==
    LET cols == TableCols(present)
        body == [i \in 1..Len(df) |-> [c \in Range(cols) |-> df[i][c]]]
    IN IF ~IsEmpty(body) /\ "Area_ha" \in Range(cols)
       THEN Append(body, TotalRow(cols, SeriesSum(Column(body, "Area_ha"))))
       ELSE body

\* shapefile: the file on disk; pc: the block the run is at; ui: the elements
\* emitted so far; widget, options, choice: the filter block just executed,
\* its option list and the value its widget returned (each is read by its own
\* block only); active: some filter's selection restricted; the rest are
\* the values handed to the page (<<>> while not emitted)
VARIABLES shapefile, pc, ui, gdf, columns, filtered_gdf, widget, options, choice,
          active, info, center, zoom, selected_area, no_of_parcels, table,
          total_area, trees

vars == <<shapefile, pc, ui, gdf, columns, filtered_gdf, widget, options, choice,
          active, info, center, zoom, selected_area, no_of_parcels, table,
          total_area, trees>>

frames == <<gdf, columns, filtered_gdf>>
widgets == <<widget, options, choice, active>>
outputs == <<info, center, zoom, selected_area, no_of_parcels, table,
             total_area, trees>>

\* the state a run starts from: nothing emitted, nothing bound
Fresh ==
    /\ pc = "start"
    /\ ui = <<>>
    /\ gdf = <<>>
    /\ columns = {}
    /\ filtered_gdf = <<>>
    /\ widget = "none"
    /\ options = <<>>
    /\ choice = All
    /\ active = FALSE
    /\ info = <<>>
    /\ center = <<>>
    /\ zoom = <<>>
    /\ selected_area = <<>>
    /\ no_of_parcels = <<>>
    /\ table = <<>>
    /\ total_area = <<>>
    /\ trees = <<>>

Init == shapefile \in ShapefilesUpTo(MaxRows) /\ Fresh

\* line 18: the logo cannot be opened, the script dies before any output
OpenLogoFails ==
    /\ pc = "start"
    /\ pc' = "raised"
    /\ UNCHANGED <<shapefile, ui, frames, widgets, outputs>>

\* lines 18-30: page config, sidebar and title
Header ==
    /\ pc = "start"
    /\ ui' = <<"sidebar.title", "sidebar.info", "title">>
    /\ pc' = "load"
    /\ UNCHANGED <<shapefile, frames, widgets, outputs>>

\* lines 33-41, the except branch: st.error, st.stop
LoadFails ==
    /\ pc = "load"
    /\ LoadRaises(shapefile)
    /\ ui' = Append(ui, "error")
    /\ pc' = "stopped"
    /\ UNCHANGED <<shapefile, frames, widgets, outputs>>

\* lines 33-38, then lines 44-46: the prompt and filtered_gdf = gdf.copy()
Load ==
    /\ pc = "load"
    /\ ~LoadRaises(shapefile)
    /\ gdf' = LoadedFrame(shapefile)
    /\ columns' = shapefile.columns
    /\ filtered_gdf' = gdf'
    /\ ui' = Append(ui, "write")
    /\ pc' = FilterOrder[1]
    /\ UNCHANGED <<shapefile, widgets, outputs>>

PcAfter(k) ==
    LET i == CHOOSE j \in 1..Len(FilterOrder) : FilterOrder[j] = k
    IN IF i < Len(FilterOrder) THEN FilterOrder[i + 1] ELSE "info"

\* one filter block: skipped when the column is absent, else the option
\* list is built from the current subset, the widget returns a selection,
\* and the subset is narrowed
Filter(k) ==
    /\ pc = k
    /\ pc' = PcAfter(k)
    /\ IF k \notin columns
       THEN UNCHANGED <<ui, gdf, filtered_gdf, widgets>>
       ELSE LET opts == Options(filtered_gdf, k)
            IN \E c \in Choices(k, opts) :
                 /\ widget' = k
                 /\ options' = opts
                 /\ choice' = c
                 /\ active' = (active \/ Restricts(k, c))
                 /\ filtered_gdf' = Narrow(gdf, filtered_gdf, k, c)
                 /\ gdf' = BaseAfter(gdf, filtered_gdf')
                 /\ ui' = Append(ui, k)
    /\ UNCHANGED <<shapefile, columns, outputs>>

FilterGPName == Filter("GP_Name")
FilterParcelId == Filter("Parcel_Id")
FilterArea == Filter("Area_ha")
FilterYear == Filter("Year")
FilterBlock == Filter("Block")
FilterDistrict == Filter("District")

\* line 95
Info ==
    /\ pc = "info"
    /\ info' = <<Len(filtered_gdf), Len(gdf)>>
    /\ ui' = Append(ui, "info")
    /\ pc' = "guard"
    /\ UNCHANGED <<shapefile, frames, widgets, center, zoom, selected_area,
                   no_of_parcels, table, total_area, trees>>

\* lines 119-121
NoData ==
    /\ pc = "guard"
    /\ IsEmpty(filtered_gdf)
    /\ ui' = Append(ui, "warning")
    /\ pc' = "stopped"
    /\ UNCHANGED <<shapefile, frames, widgets, outputs>>

\* lines 123-143
MapSetup ==
    /\ pc = "guard"
    /\ ~IsEmpty(filtered_gdf)
    /\ center' = <<Centroid(filtered_gdf)>>
    /\ zoom' = <<Zoom(filtered_gdf)>>
    /\ pc' = "map_col"
    /\ UNCHANGED <<shapefile, ui, frames, widgets, info, selected_area,
                   no_of_parcels, table, total_area, trees>>

\* line 171 on a frame without Area_ha: KeyError, the script dies
AreaTileRaises ==
    /\ pc = "map_col"
    /\ "Area_ha" \notin columns
    /\ pc' = "raised"
    /\ UNCHANGED <<shapefile, ui, frames, widgets, outputs>>

\* lines 167-185: the two tiles, the map, the table
MapColumn ==
    /\ pc = "map_col"
    /\ "Area_ha" \in columns
    /\ selected_area' = <<SeriesSum(Column(filtered_gdf, "Area_ha"))>>
    /\ no_of_parcels' = <<Len(filtered_gdf)>>
    /\ table' = <<TableCols(columns), Table(filtered_gdf, columns)>>
    /\ ui' = ui \o <<"Selected Area", "No of Parcels", "map", "table">>
    /\ pc' = "tabs"
    /\ UNCHANGED <<shapefile, frames, widgets, info, center, zoom, total_area, trees>>

\* lines 189-319: the project tiles and the static tabs
Tabs ==
    /\ pc = "tabs"
    /\ total_area' = <<SeriesSum(Column(gdf, "Area_ha"))>>
    /\ trees' = <<SeriesSum(Column(gdf, "Area_ha")) * 2500>>
    /\ ui' = ui \o <<"Total Approved Area", "Trees", "SHGs", "Employment",
                     "Status Distribution", "Project Status Overview",
                     "The Mangrove", "The Mangrove 2">>
    /\ pc' = "done"
    /\ UNCHANGED <<shapefile, frames, widgets, info, center, zoom, selected_area,
                   no_of_parcels, table>>

\* an interaction: the script is executed again from its first line
Rerun ==
    /\ pc \in {"done", "stopped", "raised"}
    /\ pc' = "start"
    /\ ui' = <<>>
    /\ gdf' = <<>>
    /\ columns' = {}
    /\ filtered_gdf' = <<>>
    /\ widget' = "none"
    /\ options' = <<>>
    /\ choice' = All
    /\ active' = FALSE
    /\ info' = <<>>
    /\ center' = <<>>
    /\ zoom' = <<>>
    /\ selected_area' = <<>>
    /\ no_of_parcels' = <<>>
    /\ table' = <<>>
    /\ total_area' = <<>>
    /\ trees' = <<>>
    /\ UNCHANGED shapefile

Next ==
    \/ OpenLogoFails
    \/ Header
    \/ LoadFails
    \/ Load
    \/ FilterGPName
    \/ FilterParcelId
    \/ FilterArea
    \/ FilterYear
    \/ FilterBlock
    \/ FilterDistrict
    \/ Info
    \/ NoData
    \/ MapSetup
    \/ AreaTileRaises
    \/ MapColumn
    \/ Tabs
    \/ Rerun

Spec == Init /\ [][Next]_vars

\* the same runs over shapefiles of one more feature
InitLarger == shapefile \in ShapefilesUpTo(MaxRows + 1) /\ Fresh

SpecLarger == InitLarger /\ [][Next]_vars

\* ---- the claims ----
HeaderElements == <<"sidebar.title", "sidebar.info", "title">>
Last(s) == s[Len(s)]
\* the load of this run has succeeded
Loaded == "write" \in Range(ui)
\* the concrete selections of a filter: values of its column in the base
\* (single-select), non-empty sets of them (multi-select)
ConcreteChoices(base, k) ==
    LET values == Range(Column(base, k))
    IN IF k \in MultiKeys THEN (SUBSET values) \ {{}} ELSE values
\* the rows a selection keeps, equality being identity of the cell's value
Keeps(r, k, c) ==
    IF k \in MultiKeys THEN (c = {} \/ All \in c \/ r[k] \in c) ELSE (c = All \/ r[k] = c)
\* s lists the members of S once each, the numbers among them ascending
AscendingListOf(s, S) ==
    /\ Len(s) = Cardinality(S)
    /\ Range(s) = S
    /\ \A i, j \in 1..Len(s) : (i < j /\ s[i] # NaN /\ s[j] # NaN) => s[i] < s[j]
\* the sum of the numeric Area_ha cells of the rows at the positions in I
RECURSIVE AreaOver(_, _)
AreaOver(df, I) ==
    IF I = {} THEN 0
    ELSE LET i == CHOOSE x \in I : TRUE
             a == df[i]["Area_ha"]
         IN (IF a \in Nat THEN a ELSE 0) + AreaOver(df, I \ {i})

\* C1: every filter block leaves exactly the rows of the subset it received
\* that satisfy its predicate: all of them when the selection is "All"
\* (single-select) or is empty or contains "All" (multi-select), else the rows
\* whose column value equals the selection (single-select) or is a member of
\* the selected set (multi-select); the run's subset is thus the base rows
\* that satisfy the conjunction.
C1_FilteredIsConjunction ==
    [][\A k \in AttrCols :
          (pc = k /\ k \in columns) =>
              filtered_gdf' = SelectSeq(filtered_gdf, LAMBDA r : Keeps(r, k, choice'))]_vars

\* C2: narrowing by the block's filter and then by any other filter with a
\* concrete selection gives the same rows as narrowing by that other filter
\* first and by the block's filter second.
C2_FiltersCommute ==
    [][(pc \in columns /\ Restricts(pc, choice')) =>
          \A j \in columns \ {pc} :
             \A cj \in ConcreteChoices(gdf, j) :
                Narrow(gdf, filtered_gdf', j, cj)
                  = Narrow(gdf, Narrow(gdf, filtered_gdf, j, cj), pc, choice')]_vars

\* C2 witness: the Block filter restricted a subset that an earlier filter
\* had already narrowed (both features are of the selected block, one is left).
C2_Witness ==
    /\ widget = "Block"
    /\ choice # All
    /\ Len(gdf) = 2
    /\ gdf[1]["Block"] = gdf[2]["Block"]
    /\ Len(filtered_gdf) = 1

\* C3: the option list a filter block builds is "All" followed by the distinct
\* values of its column in the subset narrowed by the blocks before it, in
\* ascending order.
C3_OptionsSortedCascade ==
    [][\A k \in AttrCols :
          (pc = k /\ k \in columns) =>
              /\ Len(options') >= 1
              /\ options'[1] = All
              /\ AscendingListOf(Tail(options'), Range(Column(filtered_gdf, k)))]_vars

\* C4 as claimed: a run whose subset is empty reports count 0 and area sum
\* 0.00, shows the notice, builds no map and computes no centroid.
C4_EmptyReportsZeroArea ==
    (pc = "stopped" /\ Loaded /\ Len(filtered_gdf) = 0) =>
        /\ info # <<>> /\ info[1] = 0
        /\ selected_area = <<0>>
        /\ Last(ui) = "warning"
        /\ center = <<>>

\* C4, amended: a run whose subset is empty reports count 0 in the parcel
\* message, ends with the no-data notice, emits neither tile nor map nor
\* table (no area sum is reported), and computes no centroid; whenever a
\* centroid is computed the subset is non-empty.
C4_EmptySubsetSafety ==
    /\ (Loaded /\ info # <<>> /\ Len(filtered_gdf) = 0) =>
          /\ info[1] = 0
          /\ pc \in {"guard", "stopped"}
          /\ (pc = "stopped" => Last(ui) = "warning")
          /\ {"map", "table", "Selected Area", "No of Parcels"} \cap Range(ui) = {}
          /\ center = <<>> /\ zoom = <<>>
          /\ selected_area = <<>> /\ no_of_parcels = <<>> /\ table = <<>>
    /\ center # <<>> => (Len(filtered_gdf) > 0 /\ center[1] # {})
    /\ "warning" \in Range(ui) => Len(filtered_gdf) = 0

\* C4 witness: a run over a non-empty base ended on the no-data notice.
C4_Witness ==
    /\ pc = "stopped"
    /\ Loaded
    /\ Len(gdf) > 0
    /\ info = <<0, Len(gdf)>>
    /\ Last(ui) = "warning"

\* C5 as claimed: after a load failure the error message is the only element.
C5_ErrorIsOnlyElement ==
    "error" \in Range(ui) => ui = <<"error">>

\* C5, amended: when the load fails the run halts on the error message, which
\* follows the page header (sidebar title, sidebar note, page title) emitted
\* before the load and is followed by nothing; no filter, count, tile, map or
\* table step is executed.  The error is shown for no other reason.
C5_LoadFailureHalts ==
    /\ (~shapefile.exists \/ shapefile.crs = "none") =>
          /\ pc \in {"start", "load", "stopped", "raised"}
          /\ (pc = "stopped" => ui = Append(HeaderElements, "error"))
          /\ (pc = "raised" => ui = <<>>)
          /\ ~Loaded
          /\ gdf = <<>> /\ filtered_gdf = <<>> /\ widget = "none"
          /\ info = <<>> /\ center = <<>> /\ zoom = <<>> /\ table = <<>>
          /\ selected_area = <<>> /\ no_of_parcels = <<>>
          /\ total_area = <<>> /\ trees = <<>>
    /\ "error" \in Range(ui) =>
          (pc = "stopped" /\ (~shapefile.exists \/ shapefile.crs = "none"))

\* C5 witness: a run halted on the error of a file that exists but has no CRS.
C5_Witness ==
    /\ pc = "stopped"
    /\ shapefile.exists
    /\ Len(shapefile.rows) > 0
    /\ Last(ui) = "error"

\* C6: over a dataset that lacks attribute columns a run raises no error, and
\* the filter of an absent column is not shown.
C6_MissingColumnLenient ==
    (Loaded /\ columns # AttrCols) =>
        /\ pc # "raised"
        /\ \A k \in AttrCols \ columns : k \notin Range(ui)

\* C7: when a map is built, the narrow zoom is handed to it exactly when some
\* filter is active and the subset is non-empty, the wide zoom otherwise.
C7_ZoomTiers ==
    zoom # <<>> =>
        zoom[1] = (IF active /\ Len(filtered_gdf) > 0 THEN ZoomNarrow ELSE ZoomWide)

\* the table's columns are those of the display list that are present, in order
TableColsAsClaimed ==
    /\ \A c \in Range(DisplayCols) : c \in Range(table[1]) <=> c \in columns
    /\ \A i, j \in 1..Len(table[1]) :
          i < j => \E a, b \in 1..Len(DisplayCols) :
                      a < b /\ DisplayCols[a] = table[1][i] /\ DisplayCols[b] = table[1][j]
\* the table's rows but the last are the subset's rows, projected
TableBodyAsClaimed ==
    /\ Len(table[2]) = Len(filtered_gdf) + 1
    /\ \A i \in 1..Len(filtered_gdf) :
          /\ DOMAIN table[2][i] = Range(table[1])
          /\ \A c \in Range(table[1]) : table[2][i][c] = filtered_gdf[i][c]

\* C8 as claimed: the table is the projected subset plus one "Total" row whose
\* only populated cell is the Area_ha cell, holding the Selected Area value.
C8_TotalRowOnlyArea ==
    table # <<>> =>
        /\ TableColsAsClaimed
        /\ TableBodyAsClaimed
        /\ \A c \in Range(table[1]) :
              Last(table[2])[c] = (IF c = "Area_ha" THEN selected_area[1] ELSE NaN)

\* C8, amended: the table is the projected subset plus one appended row whose
\* Area_ha cell holds the area sum of the subset (the Selected Area value),
\* whose cell in the first displayed column, when that is not Area_ha, holds
\* the label "**Total**", and whose other cells are empty.
C8_TotalRowLabelAndArea ==
    table # <<>> =>
        /\ TableColsAsClaimed
        /\ TableBodyAsClaimed
        /\ selected_area = <<AreaOver(filtered_gdf, 1..Len(filtered_gdf))>>
        /\ \A c \in Range(table[1]) :
              Last(table[2])[c] =
                 (IF c = "Area_ha" THEN selected_area[1]
                  ELSE IF c = table[1][1] THEN TotalLabel ELSE NaN)

\* C8 witness: a table of two parcels, one with a missing area, over a
\* dataset without GP_Name.
C8_Witness ==
    /\ table # <<>>
    /\ "GP_Name" \notin columns
    /\ Len(table[2]) = 3
    /\ table[2][1]["Area_ha"] = NaN
    /\ table[2][2]["Area_ha"] # NaN

\* C9: from the load to the end of the run the base collection is the loaded
\* one, whatever the filters select, and the total count of the parcel
\* message and the total-area and trees tiles are those of the loaded base.
C9_BaseNeverMutated ==
    /\ Loaded => gdf = LoadedFrame(shapefile)
    /\ info # <<>> => info[2] = Len(shapefile.rows)
    /\ total_area # <<>> =>
          /\ total_area = <<AreaOver(LoadedFrame(shapefile), 1..Len(shapefile.rows))>>
          /\ trees = <<total_area[1] * 2500>>

\* C9 witness: a finished run whose filters removed rows.
C9_Witness ==
    /\ pc = "done"
    /\ active
    /\ Len(filtered_gdf) < Len(gdf)
    /\ total_area # <<>>

\* C10: over a non-empty base, selections taken from the offered option lists
\* never leave an empty subset.
C10_OfferedOptionsKeepRows ==
    Len(gdf) > 0 => Len(filtered_gdf) > 0

====
